---- MODULE Spec2Model ----
(***************************************************************************)
(* Model of scripts/galaxy_spaxel_mstar.py: one run of the script that     *)
(* reads the Firefly stellar population catalog, builds the 2D spaxel      *)
(* stellar mass array of one galaxy, trims it to the size of the DAP maps  *)
(* and writes it to csv.                                                   *)
(*                                                                         *)
(* Arrays keep Python's 0-based indices: an array of n items is a function *)
(* on 0..n-1.  A float is the tuple <<v>>; NaN is the empty tuple.  The    *)
(* lines of the csv file are strings.                                      *)
(***************************************************************************)
EXTENDS Integers, Sequences, FiniteSets, TLC

\* ---------------------------------------------------------------- bounds
MaxGal == 2      \* rows of the catalog (Ngal)
MaxDim == 2      \* Nybin, Nxbin of a bin-id page are in 1..MaxDim
MaxCells == 4    \* Nybin * Nxbin <= MaxCells
MaxBin == 1      \* bin ids in a page are the sentinel or 0..MaxBin
MaxLenX == 3     \* NAXIS1 of the cube is in 1..MaxLenX

\* ------------------------------------------------------ program constants
SENTINEL == -99

\* identifiers held by the catalog, and the one asked for
Ids == {"8485-1901", "8485-1902"}
Requests == {"8485-1901"}

\* ----------------------------------------------------------------- floats
NaN == <<>>
F(v) == <<v>>

\* repr of a float as pandas writes it; NaN is written as na_rep = ''
FloatRepr(x) == IF x = NaN THEN "" ELSE ToString(x[1]) \o ".0"

\* ----------------------------------------------------------------- arrays
Len0(a) == Cardinality(DOMAIN a)

NRows(g) == Len0(g)
NCols(g) == IF NRows(g) = 0 THEN 0 ELSE Len0(g[0])

\* ---------------------------------------------------------- catalog input
\* Number of bins of the mass table: a few small tables, and tables just
\* large enough for the sentinel to be a legal negative index.
NBinsSet == (1..(MaxBin + 1)) \cup {-SENTINEL, -SENTINEL + 1}

CellVals == {SENTINEL} \cup (0..MaxBin)

Shapes == {s \in (1..MaxDim) \X (1..MaxDim) : s[1] * s[2] <= MaxCells}

\* Mass of bin i of galaxy k: distinct for distinct (k, i).
Mass(k, i) == F(5 + 2 * i + 1000 * k)

\* Page of galaxy k: galaxies at odd rows hold the base page with the
\* sentinel and bin 0 exchanged, so that neighbouring rows differ.
Other(v) == IF v = SENTINEL THEN 0 ELSE IF v = 0 THEN SENTINEL ELSE v
Page(base, k) ==
    [r \in DOMAIN base |->
        [c \in DOMAIN base[r] |->
            IF k % 2 = 0 THEN base[r][c] ELSE Other(base[r][c])]]

NoFile == [exists |-> FALSE, lines |-> <<>>]
StaleFile == [exists |-> TRUE, lines |-> <<"stale">>]

NoFault == [at |-> "", exc |-> ""]

VARIABLES
    pc,            \* position of the run in the script
    fault,         \* the unhandled exception that ended the run, if any
    fin,           \* the catalog file handle: "unopened", "open", "closed"
    plateifu,      \* args.plateifu
    plateifus,     \* GALAXY_INFO.PLATEIFU
    spaxel_binid,  \* SPAXEL_BINID, descriptor field 0, per galaxy
    mstar_all,     \* STELLAR_MASS_VORONOI, field 0 (Mstar), per galaxy
    ind1,          \* selected row of the catalog, -1 before line 56
    ind_binid,     \* bin-id page of the selected galaxy
    mstar,         \* 2D stellar mass array
    row,           \* rows of mstar filled by the loop of line 61
    len_x,         \* NAXIS1 of the cube, 0 before line 69
    df,            \* the trimmed DataFrame
    outfile,       \* the file at fout
    printed        \* the 'Wrote:' line is on stdout

vars == <<pc, fault, fin, plateifu, plateifus, spaxel_binid, mstar_all, ind1,
          ind_binid, mstar, row, len_x, df, outfile, printed>>

input == <<plateifu, plateifus, spaxel_binid, mstar_all>>

Init ==
    /\ pc = "open"
    /\ fault = NoFault
    /\ fin = "unopened"
    /\ plateifu \in Requests
    /\ \E ngal \in 1..MaxGal, s \in Shapes, nbins \in NBinsSet :
         /\ plateifus \in [0..(ngal - 1) -> Ids]
         /\ \E base \in [0..(s[1] - 1) -> [0..(s[2] - 1) -> CellVals]] :
              spaxel_binid = [k \in 0..(ngal - 1) |-> Page(base, k)]
         /\ mstar_all = [k \in 0..(ngal - 1) |->
                           [i \in 0..(nbins - 1) |-> Mass(k, i)]]
    /\ ind1 = -1
    /\ ind_binid = <<>>
    /\ mstar = <<>>
    /\ row = 0
    /\ len_x = 0
    /\ df = <<>>
    /\ outfile \in {NoFile, StaleFile}
    /\ printed = FALSE

Fail(at, exc) ==
    /\ pc' = "failed"
    /\ fault' = [at |-> at, exc |-> exc]

\* ------------------------------------------------------- line 40: open
Open ==
    /\ pc = "open"
    /\ \/ /\ fin' = "open"
          /\ pc' = "resolve"
          /\ UNCHANGED fault
       \/ /\ Fail("open", "OSError")
          /\ UNCHANGED fin
    /\ UNCHANGED <<input, ind1, ind_binid, mstar, row, len_x, df, outfile,
                   printed>>

\* ------------------------------------------------------- line 56: ind1
\* np.where(plateifus == x)[0]: the matching positions, ascending
Where(ids, x) == {i \in DOMAIN ids : ids[i] = x}

Min(S) == CHOOSE m \in S : \A n \in S : m <= n
Max(S) == CHOOSE m \in S : \A n \in S : m >= n

\* variant: [-1], the last of the positions
Last(S) == Max(S)

\* [0] of the ascending positions
First(S) == Min(S)

\* variant: np.argmax(plateifus == x), which is 0 when nothing matches
ResolveArgmax ==
    /\ pc = "resolve"
    /\ LET hits == Where(plateifus, plateifu) IN
         ind1' = IF hits = {} THEN 0 ELSE First(hits)
    /\ pc' = "slice"
    /\ UNCHANGED <<fault, fin, input, ind_binid, mstar, row, len_x, df, outfile,
                   printed>>

Resolve ==
    /\ pc = "resolve"
    /\ LET hits == Where(plateifus, plateifu) IN
         IF hits = {}
         THEN /\ Fail("resolve", "IndexError")
              /\ UNCHANGED ind1
         ELSE /\ ind1' = First(hits)
              /\ pc' = "slice"
              /\ UNCHANGED fault
    /\ UNCHANGED <<fin, input, ind_binid, mstar, row, len_x, df, outfile,
                   printed>>

\* ------------------------------------------------------- line 57: page
Slice ==
    /\ pc = "slice"
    /\ ind_binid' = spaxel_binid[ind1]
    /\ pc' = "alloc"
    /\ UNCHANGED <<fault, fin, input, ind1, mstar, row, len_x, df, outfile,
                   printed>>

\* ------------------------------------------------------- line 60: mstar
\* np.ones(shape) * np.nan
AllNaN(g) == [r \in DOMAIN g |-> [c \in DOMAIN g[r] |-> NaN]]

Alloc ==
    /\ pc = "alloc"
    /\ mstar' = AllNaN(ind_binid)
    /\ row' = 0
    /\ pc' = "build"
    /\ UNCHANGED <<fault, fin, input, ind1, ind_binid, len_x, df, outfile,
                   printed>>

\* ------------------------------------------------- lines 61-64: the loop
\* An integer index i into an axis of length n is legal iff -n <= i < n;
\* a negative index counts from the end.
InBounds(i, n) == -n <= i /\ i < n
Wrap(i, n) == IF i < 0 THEN i + n ELSE i

\* mstar_all[ind1, inds, 0] raises IndexError if any index is out of bounds
GatherOk(col, inds) == \A c \in DOMAIN inds : InBounds(inds[c], Len0(col))
Gather(col, inds) == [c \in DOMAIN inds |-> col[Wrap(inds[c], Len0(col))]]

\* variant: np.where(inds == 99)
IndNansWrongSign(inds) == {c \in DOMAIN inds : inds[c] = -SENTINEL}

\* np.where(inds == -99)
IndNans(inds) == {c \in DOMAIN inds : inds[c] = SENTINEL}

\* mstar[row][ind_nans] = np.nan
MaskRow(vals, nans) == [c \in DOMAIN vals |-> IF c \in nans THEN NaN ELSE vals[c]]

\* one iteration of the loop body
RowOf(col, inds) == MaskRow(Gather(col, inds), IndNans(inds))

\* variant: the loop stops one row early
LoopDoneEarly(r, g) == r >= NRows(g) - 1

\* enumerate(ind_binid) is exhausted after the last row
LoopDone(r, g) == r >= NRows(g)

BuildRow ==
    /\ pc = "build"
    /\ ~LoopDone(row, ind_binid)
    /\ LET inds == ind_binid[row]
           col == mstar_all[ind1]
       IN  IF GatherOk(col, inds)
           THEN /\ mstar' = [mstar EXCEPT ![row] = RowOf(col, inds)]
                /\ row' = row + 1
                /\ pc' = IF LoopDone(row + 1, ind_binid) THEN "fetch" ELSE "build"
                /\ UNCHANGED fault
           ELSE /\ Fail("build", "IndexError")
                /\ UNCHANGED <<mstar, row>>
    /\ UNCHANGED <<fin, input, ind1, ind_binid, len_x, df, outfile, printed>>

\* ------------------------------------------------- lines 67-69: len_x
\* The cube is an external collaborator: it yields NAXIS1 or raises.
Fetch ==
    /\ pc = "fetch"
    /\ \/ /\ len_x' \in 1..MaxLenX
          /\ pc' = "crop"
          /\ UNCHANGED fault
       \/ /\ Fail("fetch", "MarvinError")
          /\ UNCHANGED len_x
    /\ UNCHANGED <<fin, input, ind1, ind_binid, mstar, row, df, outfile,
                   printed>>

\* ------------------------------------------------------- line 71: df
\* a[:n] for n >= 0 keeps the positions below n that exist
Upto(n, len) == 0..((IF n < len THEN n ELSE len) - 1)

\* variant: mstar[-n:, -n:], anchored at the opposite corner
TrimEnd(g, n) ==
    [r \in Upto(n, NRows(g)) |->
        [c \in Upto(n, NCols(g)) |->
            g[r + NRows(g) - Cardinality(Upto(n, NRows(g)))]
             [c + NCols(g) - Cardinality(Upto(n, NCols(g)))]]]

\* mstar[:n, :n]
Trim(g, n) ==
    [r \in Upto(n, NRows(g)) |-> [c \in Upto(n, NCols(g)) |-> g[r][c]]]

Crop ==
    /\ pc = "crop"
    /\ df' = Trim(mstar, len_x)
    /\ pc' = "write"
    /\ UNCHANGED <<fault, fin, input, ind1, ind_binid, mstar, row, len_x,
                   outfile, printed>>

\* ------------------------------------------------------- line 73: to_csv
RECURSIVE Join(_, _)
Join(tok, n) ==
    IF n = 0 THEN ""
    ELSE IF n = 1 THEN tok[0]
    ELSE Join(tok, n - 1) \o "," \o tok[n - 1]

\* the labels of the columns of pd.DataFrame(a): 0, 1, ...
HeaderLine(g) == Join([c \in 0..(NCols(g) - 1) |-> ToString(c)], NCols(g))

DataLine(g, r) == Join([c \in DOMAIN g[r] |-> FloatRepr(g[r][c])], NCols(g))

DataLines(g) == [i \in 1..NRows(g) |-> DataLine(g, i - 1)]

\* to_csv(fout, index=False): header is left at its default, True
ToCsv(g) == <<HeaderLine(g)>> \o DataLines(g)

Written(lines) == [exists |-> TRUE, lines |-> lines]

\* variant: the 'Wrote:' line is printed before to_csv is called
WritePrintFirst ==
    /\ pc = "write"
    /\ printed' = TRUE
    /\ LET csv == ToCsv(df) IN
         \/ /\ outfile' = Written(csv)
            /\ pc' = "print"
            /\ UNCHANGED fault
         \/ /\ Fail("write", "OSError")
            /\ UNCHANGED outfile
    /\ UNCHANGED <<fin, input, ind1, ind_binid, mstar, row, len_x, df>>

\* The write is not atomic: a failing write leaves the path as it was (the
\* file could not be opened) or holds a proper prefix of the lines.
Write ==
    /\ pc = "write"
    /\ LET csv == ToCsv(df) IN
         \/ /\ outfile' = Written(csv)
            /\ pc' = "print"
            /\ UNCHANGED fault
         \/ /\ Fail("write", "OSError")
            /\ \/ UNCHANGED outfile
               \/ \E n \in 0..(Len(csv) - 1) :
                    outfile' = Written(SubSeq(csv, 1, n))
    /\ UNCHANGED <<fin, input, ind1, ind_binid, mstar, row, len_x, df,
                   printed>>

\* ------------------------------------------------------- line 75: print
PrintWrote ==
    /\ pc = "print"
    /\ printed' = TRUE
    /\ pc' = "close"
    /\ UNCHANGED <<fault, fin, input, ind1, ind_binid, mstar, row, len_x, df,
                   outfile>>

\* ------------------------------------------------------- line 77: close
Close ==
    /\ pc = "close"
    /\ fin' = "closed"
    /\ pc' = "done"
    /\ UNCHANGED <<fault, input, ind1, ind_binid, mstar, row, len_x, df,
                   outfile, printed>>

Next ==
    \/ Open
    \/ Resolve
    \/ Slice
    \/ Alloc
    \/ BuildRow
    \/ Fetch
    \/ Crop
    \/ Write
    \/ PrintWrote
    \/ Close

Spec == Init /\ [][Next]_vars

\* ================================================================ claims
Terminated == pc \in {"done", "failed"}

\* the loop of lines 61-64 has run to its end
Built ==
    \/ pc \in {"fetch", "crop", "write", "print", "close", "done"}
    \/ pc = "failed" /\ fault.at \in {"fetch", "write"}

\* line 71 has run
Cropped ==
    \/ pc \in {"write", "print", "close", "done"}
    \/ pc = "failed" /\ fault.at = "write"

\* line 73 has returned
WriteDone == pc \in {"print", "close", "done"}

\* the path holds what it held before the run
Untouched == outfile \in {NoFile, StaleFile}

\* the positions <<r, c>> of grid g
Cells(g) == UNION {{<<r, c>> : c \in DOMAIN g[r]} : r \in DOMAIN g}

\* every cell of page g is the sentinel or an index 0..n-1 of column col
ValidPage(g, col) ==
    \A rc \in Cells(g) :
        g[rc[1]][rc[2]] # SENTINEL => g[rc[1]][rc[2]] \in 0..(Len0(col) - 1)

HasSentinel(g) == \E rc \in Cells(g) : g[rc[1]][rc[2]] = SENTINEL
HasBin(g) == \E rc \in Cells(g) : g[rc[1]][rc[2]] # SENTINEL

\* the smallest position of the identifier column that equals the request
IsFirstMatch(i) ==
    /\ i \in DOMAIN plateifus
    /\ plateifus[i] = plateifu
    /\ \A j \in DOMAIN plateifus : j < i => plateifus[j] # plateifu

Absent == \A i \in DOMAIN plateifus : plateifus[i] # plateifu

\* C1: once the mass grid is built from a page whose non-sentinel cells are
\* valid indices, it has the shape of the page, holds the mass of the cell's
\* bin where the cell is not the sentinel and NaN where it is.
C1_MassGridIsLookup ==
    (Built /\ ValidPage(ind_binid, mstar_all[ind1])) =>
        /\ DOMAIN mstar = DOMAIN ind_binid
        /\ \A r \in DOMAIN ind_binid :
             /\ DOMAIN mstar[r] = DOMAIN ind_binid[r]
             /\ \A c \in DOMAIN ind_binid[r] :
                  mstar[r][c] = IF ind_binid[r][c] = SENTINEL
                                THEN NaN
                                ELSE mstar_all[ind1][ind_binid[r][c]]

C1_Witness ==
    /\ Built
    /\ ValidPage(ind_binid, mstar_all[ind1])
    /\ HasSentinel(ind_binid)
    /\ HasBin(ind_binid)
    /\ NRows(ind_binid) > 1

\* C2: a page whose cells are each the sentinel or a valid index never makes
\* the build fault, whatever the number of bins.
C2_NoFaultOnSentinel ==
    (ind1 # -1 /\ ValidPage(spaxel_binid[ind1], mstar_all[ind1])) =>
        ~(pc = "failed" /\ fault.at = "build")

\* C3: the file written holds one line per row of the trimmed grid, the
\* comma-separated cells of that row, and nothing else.
C3_NoHeaderNoIndex ==
    WriteDone =>
        /\ Len(outfile.lines) = NRows(df)
        /\ \A i \in 1..NRows(df) : outfile.lines[i] = DataLine(df, i - 1)

\* C4: when the request equals no entry of the identifier column, the run
\* ends failed at the lookup: no page is taken, no mass grid is built, no
\* reference dimension is fetched, the path is untouched and nothing is
\* printed.
C4_AbsentIdFails ==
    Absent =>
        /\ pc \in {"open", "resolve", "failed"}
        /\ pc = "failed" => fault.at \in {"open", "resolve"}
        /\ ind1 = -1
        /\ ind_binid = <<>>
        /\ mstar = <<>>
        /\ len_x = 0
        /\ df = <<>>
        /\ Untouched
        /\ ~printed

C4_Witness ==
    /\ Absent
    /\ pc = "failed"
    /\ fault = [at |-> "resolve", exc |-> "IndexError"]
    /\ outfile = StaleFile

\* C5: with N at most the rows and the columns of the mass grid, the trimmed
\* grid is the top-left N x N sub-grid; with N equal to both it is the grid
\* itself, and trimming it again with the same N changes nothing.
C5_CropTopLeft ==
    (Cropped /\ len_x <= NRows(mstar) /\ len_x <= NCols(mstar)) =>
        /\ DOMAIN df = 0..(len_x - 1)
        /\ \A r \in 0..(len_x - 1) :
             /\ DOMAIN df[r] = 0..(len_x - 1)
             /\ \A c \in 0..(len_x - 1) : df[r][c] = mstar[r][c]
        /\ (len_x = NRows(mstar) /\ len_x = NCols(mstar)) => df = mstar
        /\ Trim(df, len_x) = df

C5_Witness ==
    /\ Cropped
    /\ len_x < NRows(mstar)
    /\ len_x < NCols(mstar)
    /\ mstar[0][0] # NaN
    /\ mstar[NRows(mstar) - 1][NCols(mstar) - 1] # NaN

\* C6: the grid written is N x N, and a run whose N exceeds the rows or the
\* columns of the mass grid ends in a fault without touching the path.
C6_WrittenIsNxN ==
    /\ WriteDone => (NRows(df) = len_x /\ NCols(df) = len_x)
    /\ (Terminated /\ len_x > 0 /\
            (len_x > NRows(mstar) \/ len_x > NCols(mstar))) =>
         (pc = "failed" /\ Untouched)

\* C7: at the end of every run that opened the catalog, it is closed.
C7_ClosedOnEveryExit ==
    (Terminated /\ fin # "unopened") => fin = "closed"

\* C8: a page without the sentinel gives a mass grid without NaN.
C8_NoSentinelNoNaN ==
    (Built /\ ~HasSentinel(ind_binid)) =>
        \A rc \in Cells(mstar) : mstar[rc[1]][rc[2]] # NaN

C8_Witness ==
    /\ pc = "done"
    /\ ~HasSentinel(ind_binid)
    /\ NRows(mstar) > 1
    /\ NCols(mstar) > 1

\* C9: the row selected is the first whose identifier equals the request,
\* and the page and the mass column are those of that row.
C9_FirstMatchSelected ==
    /\ ind1 # -1 => IsFirstMatch(ind1)
    /\ \A i \in DOMAIN plateifus :
         IsFirstMatch(i) =>
            /\ pc \notin {"open", "resolve", "slice", "failed"} =>
                  ind_binid = spaxel_binid[i]
            /\ Built =>
                  \A rc \in Cells(ind_binid) :
                      ind_binid[rc[1]][rc[2]] # SENTINEL =>
                          mstar[rc[1]][rc[2]] =
                              mstar_all[i][Wrap(ind_binid[rc[1]][rc[2]],
                                                Len0(mstar_all[i]))]

C9_Witness ==
    /\ Built
    /\ Cardinality(Where(plateifus, plateifu)) > 1
    /\ HasBin(ind_binid)
    /\ HasSentinel(ind_binid)

\* C10: the path changes only in the write step, after the catalog is open,
\* the row resolved, the mass grid built and the reference dimension
\* fetched; a run that failed before the write leaves the path untouched;
\* and 'Wrote:' is printed only in a run whose write completed.
C10_WriteLast ==
    /\ [][outfile' # outfile =>
            /\ pc = "write"
            /\ fin = "open"
            /\ IsFirstMatch(ind1)
            /\ row = NRows(ind_binid)
            /\ len_x >= 1]_vars
    /\ [](/\ (pc = "failed" /\ fault.at # "write") => Untouched
          /\ printed => (fault = NoFault /\ outfile = Written(ToCsv(df))))

C10_Witness ==
    /\ pc = "done"
    /\ printed
    /\ outfile.exists
====
